---- MODULE Spec2Model ----
(***************************************************************************)
(* create-dash-app: the project generator (generator.py), the prompt      *)
(* post-processing (prompts.py) and the ProjectConfig validator            *)
(* (models/project_config.py).                                             *)
(*                                                                         *)
(* File names are sequences of one-character strings, so that suffix,     *)
(* stem, lower() and substring tests are computed as pathlib and str      *)
(* compute them.  Paths are sequences of names, relative to the working   *)
(* directory; <<>> is Path(".").                                           *)
(***************************************************************************)
EXTENDS Integers, Sequences, FiniteSets, TLC

VARIABLES
    tmplRoot,     \* files directly in templates/ (names)
    tmplVariant,  \* files under templates/<type>/ (relative paths)
    dirs,         \* directories below the working directory
    files,        \* path -> content of the regular files
    config,       \* the ProjectConfig handed to generate_project
    gen,          \* ProjectGenerator fields: project_name, project_path
    pc,           \* position inside generate_project ("idle" outside)
    remaining,    \* templates _generate_files has still to visit
    steps,        \* steps of the running call that have returned
    written,      \* writes of the running call: template, loaded, ctx, target
    skipped,      \* templates the running call skipped
    uv,           \* how the uv commands of the running call went
    tailwind,     \* how the Tailwind CSS setup of the running call went
    lookup,       \* the template lookups of the last _process_template_file
    outcome,      \* result of the last call and the exception it caught
    start,        \* file system and generator when the running call started
    prompt,       \* collect_project_config: answers, directory listing, result
    val           \* validate_none: raw input and validated values

vars == <<tmplRoot, tmplVariant, dirs, files, config, gen, pc, remaining, steps,
          written, skipped, uv, tailwind, outcome, lookup, start, prompt, val>>

genVars == <<tmplRoot, tmplVariant, dirs, files, config, gen, pc, remaining, steps,
             written, skipped, uv, tailwind, outcome, lookup, start>>

-----------------------------------------------------------------------------
(* Bounds *)

MaxTemplates == 2
MaxLen == 3

-----------------------------------------------------------------------------
(* Names *)

DOT == <<".">>
JINJA == <<".", "j", "i", "n", "j", "a">>
PRE_COMMIT == <<"p", "r", "e", "-", "c", "o", "m", "m", "i", "t">>
SRC == <<"s", "r", "c">>
PAGES == <<"p", "a", "g", "e", "s">>
ASSETS == <<"a", "s", "s", "e", "t", "s">>
PYPROJECT_TOML == <<"p", "y", "p", "r", "o", "j", "e", "c", "t", ".", "t", "o", "m", "l">>
PACKAGE_JSON == <<"p", "a", "c", "k", "a", "g", "e", ".", "j", "s", "o", "n">>
TAILWIND_CSS == <<"t", "a", "i", "l", "w", "i", "n", "d", ".", "c", "s", "s">>
TAILWIND_CONFIG_JS == <<"t", "a", "i", "l", "w", "i", "n", "d", ".", "c", "o", "n", "f", "i", "g", ".", "j", "s">>
TAILWIND_OUTPUT_CSS == <<"t", "a", "i", "l", "w", "i", "n", "d", "-", "o", "u", "t", "p", "u", "t", ".", "c", "s", "s">>
UV_LOCK == <<"u", "v", ".", "l", "o", "c", "k">>
NODE_MODULES == <<"n", "o", "d", "e", "_", "m", "o", "d", "u", "l", "e", "s">>
VENV == <<".", "v", "e", "n", "v">>
GIT == <<".", "g", "i", "t">>
BASIC == <<"b", "a", "s", "i", "c">>

\* template files the bounded template trees are drawn from
T_pyproject == <<"p", "y", "p", "r", "o", "j", "e", "c", "t", ".", "t", "o", "m", "l", ".", "j", "i", "n", "j", "a">>
T_precommit == <<".", "p", "r", "e", "-", "c", "o", "m", "m", "i", "t", ".", "j", "i", "n", "j", "a">>
T_PreCommit == <<"P", "r", "e", "-", "C", "o", "m", "m", "i", "t", ".", "m", "d">>
T_gitignore == <<".", "g", "i", "t", "i", "g", "n", "o", "r", "e">>
T_dotjinja == <<".", "j", "i", "n", "j", "a">>
T_app == <<"a", "p", "p", ".", "p", "y", ".", "j", "i", "n", "j", "a">>

\* the working directory's name and a project name that is not "."
N_cwd == <<"m", "y", "_", "a", "p", "p">>
N_new == <<"d", "a", "s", "h">>
N_MyApp == <<"M", "y", "-", "A", "p", "p">>
N_my_app == <<"m", "y", " ", "a", "p", "p">>
MAIN_PY == <<"m", "a", "i", "n", ".", "p", "y">>

-----------------------------------------------------------------------------
(* str and pathlib operations *)

UPPER == <<"A", "B", "C", "D", "E", "F", "G", "H", "I", "J", "K", "L", "M",
           "N", "O", "P", "Q", "R", "S", "T", "U", "V", "W", "X", "Y", "Z">>
LOWER == <<"a", "b", "c", "d", "e", "f", "g", "h", "i", "j", "k", "l", "m",
           "n", "o", "p", "q", "r", "s", "t", "u", "v", "w", "x", "y", "z">>

UpperChars == {UPPER[i] : i \in 1..Len(UPPER)}
LowerOf == [c \in UpperChars |-> LOWER[CHOOSE i \in 1..Len(UPPER) : UPPER[i] = c]]

LowerChar(c) == IF c \in UpperChars THEN LowerOf[c] ELSE c

\* str.lower()
lower(s) == [i \in 1..Len(s) |-> LowerChar(s[i])]

\* str.replace(a, b) for one-character a and b
replace(s, a, b) == [i \in 1..Len(s) |-> IF s[i] = a THEN b ELSE s[i]]

\* sub in s
Contains(sub, s) ==
    \E i \in 0..(Len(s) - Len(sub)) : SubSeq(s, i + 1, i + Len(sub)) = sub

\* str.startswith
startswith(s, p) == Len(s) >= Len(p) /\ SubSeq(s, 1, Len(p)) = p

\* str.rfind(ch): 0-based index of the last ch, -1 when there is none
rfind(s, ch) ==
    IF \E i \in 1..Len(s) : s[i] = ch
    THEN (CHOOSE i \in 1..Len(s) : s[i] = ch /\ \A j \in (i + 1)..Len(s) : s[j] # ch) - 1
    ELSE -1

\* PurePath.suffix of a file name
suffix(name) ==
    LET i == rfind(name, ".")
    IN  IF 0 < i /\ i < Len(name) - 1 THEN SubSeq(name, i + 1, Len(name)) ELSE <<>>

\* PurePath.stem of a file name
stem(name) ==
    LET i == rfind(name, ".")
    IN  IF 0 < i /\ i < Len(name) - 1 THEN SubSeq(name, 1, i) ELSE name

Last(p) == p[Len(p)]
Parent(p) == SubSeq(p, 1, Len(p) - 1)
IsPrefix(p, q) == Len(p) <= Len(q) /\ SubSeq(q, 1, Len(p)) = p
Prefixes(p) == {SubSeq(p, 1, k) : k \in 1..Len(p)}

-----------------------------------------------------------------------------
(* ProjectConfig.validate_none *)

\* Raw values: [kind |-> "none"] is None, [kind |-> "str", s |-> ..] a string,
\* [kind |-> "list", items |-> ..] a list.
Truthy(value) ==
    CASE value.kind = "none" -> FALSE
      [] value.kind = "str"  -> value.s # ""
      [] value.kind = "list" -> value.items # <<>>

AsList(value) == IF value.kind = "list" THEN value.items ELSE <<value.s>>

RECURSIVE Filtered(_)
Filtered(items) ==
    IF items = <<>> THEN <<>>
    ELSE IF Head(items) # "none"
         THEN <<Head(items)>> \o Filtered(Tail(items))
         ELSE Filtered(Tail(items))

validate_none_keep_none(value) ==
    IF ~Truthy(value) THEN <<>> ELSE AsList(value)

validate_none(value) ==
    IF ~Truthy(value) THEN <<>>
    ELSE LET v == AsList(value)
             filtered == Filtered(v)
         IN  IF (\E i \in 1..Len(v) : v[i] = "none") /\ filtered = <<>>
             THEN <<>>
             ELSE filtered

-----------------------------------------------------------------------------
(* The file system below the working directory *)

\* Path(name): Path(".") is the working directory itself
Path(name) == IF name = DOT THEN <<>> ELSE <<name>>

\* os.path.exists / Path.exists
exists(p, ds, fs) == p = <<>> \/ p \in ds \/ p \in DOMAIN fs

\* Path.mkdir(parents=True, exist_ok=True) raises when the path or one of its
\* parents is a regular file
MkdirRaises(p, ds, fs) == \E q \in Prefixes(p) : q \in DOMAIN fs

Mkdir(p, ds) == ds \cup Prefixes(p)

\* open(p, "w") raises when p is a directory or its parent is none
OpenRaises(p, ds, fs) ==
    \/ p \in ds
    \/ p = <<>>
    \/ ~(Parent(p) = <<>> \/ Parent(p) \in ds)

WriteFile(p, c, fs) == [q \in DOMAIN fs \cup {p} |-> IF q = p THEN c ELSE fs[q]]

\* shutil.rmtree(p)
RmtreeDirs(p, ds) == {d \in ds : ~IsPrefix(p, d)}
RmtreeFiles(p, fs) == [q \in {r \in DOMAIN fs : ~IsPrefix(p, r)} |-> fs[q]]

NoFiles == [q \in {} |-> [kind |-> "old"]]
OldContent == [kind |-> "old"]

-----------------------------------------------------------------------------
(* The template tree and the Jinja loader *)

RootNames == {T_pyproject, T_precommit, T_PreCommit, T_dotjinja}
VariantPaths == {<<T_app>>, <<PAGES, T_gitignore>>, <<PRE_COMMIT, T_app>>}

\* a template file: root |-> TRUE for templates/<rel>, FALSE for templates/<type>/<rel>
RootTemplate(name) == [root |-> TRUE, rel |-> <<name>>]
VariantTemplate(rel) == [root |-> FALSE, rel |-> rel]
AllTemplates == {RootTemplate(n) : n \in tmplRoot} \cup {VariantTemplate(r) : r \in tmplVariant}

\* the directories of the tree: templates/<type> itself, which iterdir of line
\* 108 yields, and below it every directory on the way to a variant template,
\* which rglob("*") of line 116 yields
TemplateDirs ==
    {[root |-> TRUE, rel |-> <<BASIC>>]} \cup
    {[root |-> FALSE, rel |-> p] : p \in UNION {Prefixes(Parent(r)) : r \in tmplVariant}}

\* everything the two loops of lines 108 and 116 iterate over
Entries == AllTemplates \cup TemplateDirs

\* lines 109 and 117
is_file(e) == e \in AllTemplates

\* the condition of lines 112 and 120
Eligible_not_hidden(name) == ~startswith(name, DOT)

Eligible(name) == ~startswith(name, DOT) \/ suffix(name) = JINJA

\* the files the two loops of _generate_files hand to _process_template_file
EligibleTemplates == {e \in Entries : is_file(e) /\ Eligible(Last(e.rel))}

\* FileSystemLoader(searchpath=[templates/, templates/<type>/]).get_template(rel):
\* the first search path holding the file wins; NotFound when neither holds it
NotFound == [root |-> FALSE, rel |-> <<>>]
get_template(rel) ==
    IF Len(rel) = 1 /\ rel[1] \in tmplRoot THEN RootTemplate(rel[1])
    ELSE IF Len(rel) >= 2 /\ rel[1] = BASIC /\ Tail(rel) \in tmplVariant
         THEN VariantTemplate(Tail(rel))
    ELSE IF rel \in tmplVariant THEN VariantTemplate(rel)
    ELSE NotFound

\* get_template(rel) when the files of broken cannot be compiled: loading one
\* of them raises as a missing file does
Lookup(rel, broken) ==
    [name |-> rel,
     found |-> IF get_template(rel) \in broken THEN NotFound ELSE get_template(rel)]

\* lines 147-152: the lookups of one _process_template_file, in order: the
\* relative path first, the bare file name only when the first lookup raised
Lookups_no_fallback(t, broken) == <<Lookup(t.rel, broken)>>

Lookups(t, broken) ==
    IF Lookup(t.rel, broken).found # NotFound
    THEN <<Lookup(t.rel, broken)>>
    ELSE <<Lookup(t.rel, broken), Lookup(<<Last(t.rel)>>, broken)>>

\* the template the lookups end with; NotFound: the last lookup raised
LoadTemplate(t, broken) == Lookups(t, broken)[Len(Lookups(t, broken))].found

NoLookup == [template |-> NotFound, tried |-> <<>>]

\* lines 155: the pre-commit skip
SkipTemplate_case_sensitive(cfg, name) ==
    ~cfg.configure_pre_commit /\ Contains(PRE_COMMIT, name)

SkipTemplate(cfg, name) ==
    ~cfg.configure_pre_commit /\ Contains(PRE_COMMIT, lower(name))

\* config.model_dump(): a copy of the fields
model_dump(cfg) == cfg

\* line 162: the rendered text is determined by the loaded template and the context
Render(loaded, cfg) == [kind |-> "rendered", source |-> loaded, ctx |-> model_dump(cfg)]

\* lines 165-171
TargetDir_flat_src(t, project_path) ==
    IF t.root THEN project_path ELSE project_path \o <<SRC>>

TargetDir(t, project_path) ==
    IF t.root THEN project_path
    ELSE project_path \o <<SRC>> \o Parent(t.rel)

\* line 176
OutputFilename_keep_suffix(name) == name

OutputFilename(name) == IF suffix(name) = JINJA THEN stem(name) ELSE name

TargetFile(t, project_path) == TargetDir(t, project_path) \o <<OutputFilename(Last(t.rel))>>

-----------------------------------------------------------------------------
(* ProjectGenerator *)

\* the configurations a call is made with; include_pages (False by default,
\* project_config.py line 15) is read at line 435 only, for the text of
\* _display_next_steps, and is varied for the configurations without styling
Configs ==
    {c \in [project_name : {DOT, N_new},
            styling : {<<>>, <<"tailwind">>},
            include_pages : BOOLEAN,
            configure_pre_commit : BOOLEAN] :
        c.include_pages => c.styling = <<>>}

\* what the working directory holds before the first call: nothing, or an older
\* pyproject.toml of its own and an older project directory of the new name
InitialFileSystems ==
    { [dirs |-> {}, files |-> NoFiles],
      [dirs |-> {<<N_new>>},
       files |-> WriteFile(<<N_new, PYPROJECT_TOML>>, OldContent,
                           WriteFile(<<PYPROJECT_TOML>>, OldContent, NoFiles))] }

NoOutcome == [result |-> "none", error |-> "none", cleanup |-> "none"]

\* lines 41-46
NewGenerator(project_name) == [project_name |-> project_name, project_path |-> <<>>]

PromptOff == [stage |-> "off"]
ValOff == [stage |-> "off"]

Init ==
    /\ tmplRoot \in SUBSET RootNames
    /\ tmplVariant \in SUBSET VariantPaths
    /\ Cardinality(tmplRoot) + Cardinality(tmplVariant) <= MaxTemplates
    /\ \E f \in InitialFileSystems : dirs = f.dirs /\ files = f.files
    /\ config \in Configs
    /\ gen = NewGenerator(config.project_name)
    /\ pc = "idle"
    /\ remaining = {}
    /\ steps = <<>>
    /\ written = {}
    /\ skipped = {}
    /\ uv = "not_run"
    /\ tailwind = "not_run"
    /\ lookup = NoLookup
    /\ outcome = NoOutcome
    /\ start = [dirs |-> dirs, files |-> files, project_name |-> gen.project_name,
                project_path |-> gen.project_path]
    /\ prompt = PromptOff
    /\ val = ValOff

\* lines 64-72: the order of the statements of the try block
Pipeline ==
    <<"create_dirs", "generate_files", "tailwind", "uv", "make_executable",
      "success", "next_steps">>

PipelineUvFirst ==
    <<"create_dirs", "uv", "generate_files", "tailwind", "make_executable",
      "success", "next_steps">>

After(order, step) ==
    LET i == CHOOSE k \in 1..Len(order) : order[k] = step
    IN  IF i = Len(order) THEN "idle" ELSE order[i + 1]

NextStep_uv_first(step) == After(PipelineUvFirst, step)

NextStep(step) == After(Pipeline, step)

\* a step returns: the next statement of the try block runs
Return(step) ==
    /\ pc' = NextStep(step)
    /\ steps' = Append(steps, step)
    /\ outcome' = IF NextStep(step) = "idle"
                  THEN [outcome EXCEPT !.result = "ok"] ELSE outcome

\* a step raises: control goes to the except clause of line 73
Raise(error) ==
    /\ pc' = "cleanup"
    /\ outcome' = [outcome EXCEPT !.error = error]
    /\ UNCHANGED steps

\* line 61: generate_project(config) is called
generate_project ==
    /\ pc = "idle"
    /\ pc' = Pipeline[1]
    /\ remaining' = EligibleTemplates
    /\ steps' = <<>>
    /\ written' = {}
    /\ skipped' = {}
    /\ uv' = "not_run"
    /\ tailwind' = "not_run"
    /\ lookup' = NoLookup
    /\ outcome' = NoOutcome
    /\ start' = [dirs |-> dirs, files |-> files, project_name |-> gen.project_name,
                 project_path |-> gen.project_path]
    /\ UNCHANGED <<tmplRoot, tmplVariant, dirs, files, config, gen, prompt, val>>

\* lines 92-97: the FileExistsError of the explicit check (os.makedirs raises
\* the same error for an existing path)
RootExists_exist_ok(name, ds, fs) == FALSE

RootExists(name, ds, fs) == exists(<<name>>, ds, fs)

\* lines 101-102: the directories the step creates below project_path; the
\* pages directory is created whatever config.include_pages says
PagesDir_if_include_pages(cfg) == IF cfg.include_pages THEN <<SRC, PAGES>> ELSE <<>>

PagesDir(cfg) == <<SRC, PAGES>>

\* lines 77-103, with the configuration the step leaves behind
CreateProjectDirs(cfg) ==
    /\ pc = "create_dirs"
    /\ config' = cfg
    /\ IF gen.project_name = DOT
       THEN /\ gen' = [project_name |-> N_cwd, project_path |-> <<>>]
            /\ IF MkdirRaises(PagesDir(config), dirs, files)
               THEN Raise("OSError") /\ UNCHANGED dirs
               ELSE Return("create_dirs") /\ dirs' = Mkdir(PagesDir(config), dirs)
       ELSE IF RootExists(gen.project_name, dirs, files)
            THEN Raise("FileExistsError") /\ UNCHANGED <<gen, dirs>>
            ELSE /\ gen' = [gen EXCEPT !.project_path = <<gen.project_name>>]
                 /\ dirs' = Mkdir(<<gen.project_name>> \o PagesDir(config), dirs)
                 /\ Return("create_dirs")
    /\ UNCHANGED <<tmplRoot, tmplVariant, files, remaining, written, skipped, uv,
                   tailwind, lookup, start, prompt, val>>

_create_project_dirs_renames_config ==
    CreateProjectDirs(IF gen.project_name = DOT
                      THEN [config EXCEPT !.project_name = N_cwd] ELSE config)

_create_project_dirs == CreateProjectDirs(config)

\* lines 125-179 for one template of the two loops of lines 108-121; the root
\* templates come first; fault: the file the first lookup resolves to cannot
\* be compiled ("load"), or the loaded template fails to render ("render")
_process_template_file ==
    /\ pc = "generate_files"
    /\ \E t \in remaining, fault \in {"none", "load", "render"} :
        /\ t.root \/ ~\E r \in remaining : r.root
        /\ remaining' = remaining \ {t}
        /\ LET broken == IF fault = "load" THEN {get_template(t.rel)} ELSE {}
               loaded == LoadTemplate(t, broken)
               dir == TargetDir(t, gen.project_path)
               target == TargetFile(t, gen.project_path)
           IN  /\ lookup' = [template |-> t, tried |-> Lookups(t, broken)]
               /\ IF loaded = NotFound
                  THEN Raise("TemplateError") /\ UNCHANGED <<dirs, files, written, skipped>>
                  ELSE IF SkipTemplate(config, Last(t.rel))
                  THEN /\ skipped' = skipped \cup {t}
                       /\ UNCHANGED <<dirs, files, written, pc, steps, outcome>>
                  ELSE IF fault = "render"
                  THEN Raise("TemplateError") /\ UNCHANGED <<dirs, files, written, skipped>>
                  ELSE IF MkdirRaises(dir, dirs, files)
                  THEN Raise("OSError") /\ UNCHANGED <<dirs, files, written, skipped>>
                  ELSE IF OpenRaises(target, Mkdir(dir, dirs), files)
                  THEN /\ Raise("OSError")
                       /\ dirs' = Mkdir(dir, dirs)
                       /\ UNCHANGED <<files, written, skipped>>
                  ELSE /\ dirs' = Mkdir(dir, dirs)
                       /\ files' = WriteFile(target, Render(loaded, config), files)
                       /\ written' = written \cup
                             {[template |-> t, target |-> target,
                               content |-> Render(loaded, config)]}
                       /\ UNCHANGED <<skipped, pc, steps, outcome>>
    /\ UNCHANGED <<tmplRoot, tmplVariant, config, gen, uv, tailwind, start, prompt, val>>

\* lines 105-123: both loops are done
_generate_files ==
    /\ pc = "generate_files"
    /\ remaining = {}
    /\ Return("generate_files")
    /\ UNCHANGED <<tmplRoot, tmplVariant, dirs, files, config, gen, remaining, written,
                   skipped, uv, tailwind, lookup, start, prompt, val>>

PackageJson(scripts) == [kind |-> "package_json", scripts |-> scripts]

\* lines 254-366: the file system _setup_tailwind_css leaves behind and whether
\* a step of it failed; fail names the npm command that exits non-zero or is
\* missing ("none": all succeed). Every exception is caught inside the method
\* (lines 341-366), with a warning.
SetupTailwind(pp, ds, fs, fail) ==
    LET pj == pp \o <<PACKAGE_JSON>>
        css == pp \o <<SRC, ASSETS, TAILWIND_CSS>>
        cfgjs == pp \o <<TAILWIND_CONFIG_JS>>
        out == pp \o <<SRC, ASSETS, TAILWIND_OUTPUT_CSS>>
        Stop(d, f) == [dirs |-> d, files |-> f, failed |-> TRUE]
        \* lines 261-270: npm init -y
        fs1 == IF exists(pj, ds, fs) THEN fs ELSE WriteFile(pj, PackageJson(FALSE), fs)
        \* lines 276-283: npm install -D
        ds2 == ds \cup {pp \o <<NODE_MODULES>>}
        \* lines 286-290
        ds3 == Mkdir(Parent(css), ds2)
        fs3 == WriteFile(css, [kind |-> "tailwind_css"], fs1)
        \* lines 293-308
        fs4 == WriteFile(cfgjs, [kind |-> "tailwind_config"], fs3)
        \* lines 311-326
        fs5 == WriteFile(pj, PackageJson(TRUE), fs4)
        \* lines 330-336: npm run build:css:prod
        fs6 == WriteFile(out, [kind |-> "tailwind_output"], fs5)
    IN  IF ~exists(pj, ds, fs) /\ fail = "init" THEN Stop(ds, fs)
        ELSE IF fail = "install" THEN Stop(ds, fs1)
        ELSE IF MkdirRaises(Parent(css), ds2, fs1) THEN Stop(ds2, fs1)
        ELSE IF OpenRaises(css, ds3, fs1) THEN Stop(ds3, fs1)
        ELSE IF OpenRaises(cfgjs, ds3, fs3) THEN Stop(ds3, fs3)
        ELSE IF pj \notin DOMAIN fs4 \/ fs4[pj].kind # "package_json" THEN Stop(ds3, fs4)
        ELSE IF fail = "build" THEN Stop(ds3, fs5)
        ELSE [dirs |-> ds3, files |-> fs6, failed |-> FALSE]

\* lines 242-366
_setup_tailwind_css ==
    /\ pc = "tailwind"
    /\ IF ~\E i \in 1..Len(config.styling) : config.styling[i] = "tailwind"
       THEN tailwind' = "skipped" /\ UNCHANGED <<dirs, files>>
       ELSE \E fail \in {"none", "init", "build"} :
               LET r == SetupTailwind(gen.project_path, dirs, files, fail)
               IN  /\ dirs' = r.dirs
                   /\ files' = r.files
                   /\ tailwind' = IF r.failed THEN "failed" ELSE "ok"
    /\ Return("tailwind")
    /\ UNCHANGED <<tmplRoot, tmplVariant, config, gen, remaining, written, skipped, uv,
                   lookup, start, prompt, val>>

\* the exception subprocess.run raises for a way the uv commands go wrong
UvError(run) == IF run = "not_found" THEN "FileNotFoundError" ELSE "CalledProcessError"

\* lines 227-240: the except clauses of _initialize_uv_dependencies
UvCaught_called_process_only(error) == error = "CalledProcessError"

UvCaught(error) == error \in {"CalledProcessError", "FileNotFoundError"}

\* lines 181-240; run: "ok", or the way the uv commands go wrong: uv sync exits
\* non-zero, uv pip install -e . exits non-zero after a successful uv sync, or
\* the uv executable is missing
_initialize_uv_dependencies ==
    /\ pc = "uv"
    /\ LET pp == gen.project_path
           lock == WriteFile(pp \o <<UV_LOCK>>, [kind |-> "uv_lock"], files)
       IN  IF ~exists(pp \o <<PYPROJECT_TOML>>, dirs, files)
           THEN uv' = "skipped" /\ Return("uv") /\ UNCHANGED <<dirs, files>>
           ELSE \E run \in {"ok", "sync_failed", "install_failed", "not_found"} :
                   /\ IF run \in {"ok", "install_failed"}
                      THEN dirs' = dirs \cup {pp \o <<VENV>>} /\ files' = lock
                      ELSE UNCHANGED <<dirs, files>>
                   /\ uv' = IF run = "ok" THEN "ok" ELSE "failed"
                   /\ IF run = "ok" \/ UvCaught(UvError(run))
                      THEN Return("uv")
                      ELSE Raise(UvError(run))
    /\ UNCHANGED <<tmplRoot, tmplVariant, config, gen, remaining, written, skipped,
                   tailwind, lookup, start, prompt, val>>

\* lines 368-374
_make_executable_files ==
    /\ pc = "make_executable"
    /\ Return("make_executable")
    /\ UNCHANGED <<tmplRoot, tmplVariant, dirs, files, config, gen, remaining, written,
                   skipped, uv, tailwind, lookup, start, prompt, val>>

\* lines 69-71
success_message ==
    /\ pc = "success"
    /\ Return("success")
    /\ UNCHANGED <<tmplRoot, tmplVariant, dirs, files, config, gen, remaining, written,
                   skipped, uv, tailwind, lookup, start, prompt, val>>

\* lines 376-453
_display_next_steps ==
    /\ pc = "next_steps"
    /\ Return("next_steps")
    /\ UNCHANGED <<tmplRoot, tmplVariant, dirs, files, config, gen, remaining, written,
                   skipped, uv, tailwind, lookup, start, prompt, val>>

\* lines 464-468
ShouldRemove_never(project_path, ds, fs) == FALSE

ShouldRemove(project_path, ds, fs) ==
    project_path # <<>> /\ exists(project_path, ds, fs)

\* lines 73-75 and 455-482
_cleanup_on_error ==
    /\ pc = "cleanup"
    /\ pc' = "idle"
    /\ IF ShouldRemove(gen.project_path, dirs, files)
       THEN /\ dirs' = RmtreeDirs(gen.project_path, dirs)
            /\ files' = RmtreeFiles(gen.project_path, files)
            /\ outcome' = [outcome EXCEPT !.result = "failed", !.cleanup = "removed"]
       ELSE /\ UNCHANGED <<dirs, files>>
            /\ outcome' = [outcome EXCEPT !.result = "failed",
                              !.cleanup = IF gen.project_path = <<>> THEN "note" ELSE "silent"]
    /\ UNCHANGED <<tmplRoot, tmplVariant, config, gen, remaining, steps, written, skipped,
                   uv, tailwind, lookup, start, prompt, val>>

Next ==
    \/ generate_project
    \/ _create_project_dirs
    \/ _process_template_file
    \/ _generate_files
    \/ _setup_tailwind_css
    \/ _initialize_uv_dependencies
    \/ _make_executable_files
    \/ success_message
    \/ _display_next_steps
    \/ _cleanup_on_error

Spec == Init /\ [][Next]_vars

-----------------------------------------------------------------------------
(* Properties of generate_project *)

\* the directory a call is to generate into, from the name it was started with
CallPath == IF start.project_name = DOT THEN <<>> ELSE <<start.project_name>>

TargetExisted == exists(CallPath, start.dirs, start.files)

Finished == pc = "idle" /\ outcome.result # "none"
Failed == pc = "idle" /\ outcome.result = "failed"
StepDone(step) == \E i \in 1..Len(steps) : steps[i] = step

\* a file name with a final ".jinja" removed
StripJinja(name) ==
    IF Len(name) >= Len(JINJA) /\ SubSeq(name, Len(name) - Len(JINJA) + 1, Len(name)) = JINJA
    THEN SubSeq(name, 1, Len(name) - Len(JINJA))
    ELSE name

\* C1 as stated: after a failed generate_project for a project name other than
\* ".", the project root directory does not exist.
C1_RootGoneAfterFailure ==
    (Failed /\ start.project_name # DOT) => ~exists(CallPath, dirs, files)

\* C1 amended: after a failed generate_project for a project name other than "."
\* whose directory did not exist when the call started, the project root does
\* not exist; after a failed call for ".", nothing that existed when the call
\* started is deleted and only the note is issued.
C1_RollbackOfCreatedRoot ==
    Failed =>
        /\ (start.project_name # DOT /\ ~TargetExisted) => ~exists(CallPath, dirs, files)
        /\ start.project_name = DOT =>
              /\ outcome.cleanup = "note"
              /\ start.dirs \subseteq dirs
              /\ DOMAIN start.files \subseteq DOMAIN files

\* C1 witness: a call created its root, failed later, and the root was removed
C1_Witness ==
    /\ Failed
    /\ start.project_name # DOT
    /\ ~TargetExisted
    /\ StepDone("create_dirs")
    /\ outcome.cleanup = "removed"

NothingCreatedIn(target) ==
    /\ \A p \in DOMAIN files :
          IsPrefix(target, p) => p \in DOMAIN start.files /\ files[p] = start.files[p]
    /\ \A d \in dirs : IsPrefix(target, d) => d \in start.dirs

\* C2 as stated: whenever the target directory of a call already exists
\* (the project name "." included), the call fails with FileExistsError and no
\* file is created or overwritten inside that directory.
C2_ExistingTargetRejected ==
    TargetExisted =>
        /\ Finished => (outcome.result = "failed" /\ outcome.error = "FileExistsError")
        /\ NothingCreatedIn(CallPath)

\* C2 amended: whenever the target directory of a call for a project name
\* other than "." already exists, _create_project_dirs fails with
\* FileExistsError and no file or directory is created or overwritten inside
\* that directory.
C2_ExistingNamedTargetRejected ==
    (start.project_name # DOT /\ TargetExisted) =>
        /\ Finished => (outcome.result = "failed" /\ outcome.error = "FileExistsError")
        /\ steps = <<>>
        /\ written = {}
        /\ NothingCreatedIn(CallPath)

\* C2 witness: a call for an existing named directory was rejected
C2_Witness ==
    /\ Failed
    /\ start.project_name # DOT
    /\ TargetExisted
    /\ outcome.error = "FileExistsError"
    /\ \E p \in DOMAIN files : IsPrefix(CallPath, p)

\* C3: every file written for a root template is project_path/<name>, <name> the
\* template's file name without a final ".jinja", and never below src/.
C3_RootTemplateTargets ==
    \A w \in written :
        w.template.root =>
            /\ w.target = CallPath \o <<StripJinja(Last(w.template.rel))>>
            /\ ~IsPrefix(CallPath \o <<SRC>>, w.target)

\* C3 witness: a root template with and one without the .jinja suffix were written
\* into a new project directory
C3_Witness ==
    /\ CallPath # <<>>
    /\ \E w \in written : w.template.root /\ Last(w.target) # Last(w.template.rel)
                          /\ w.target \in DOMAIN files
    /\ \E w \in written : w.template.root /\ Last(w.target) = Last(w.template.rel)

\* C4: every file written for a variant template templates/<type>/<d>/<f> is
\* project_path/src/<d>/<f'>, <f'> being <f> without a final ".jinja", and never
\* at the project's top level.
C4_VariantTemplateTargets ==
    \A w \in written :
        ~w.template.root =>
            /\ w.target = CallPath \o <<SRC>> \o Parent(w.template.rel)
                             \o <<StripJinja(Last(w.template.rel))>>
            /\ Len(w.target) > Len(CallPath) + 1

\* C4 witness: a variant template in a subdirectory and one directly in
\* templates/<type>/ were written
C4_Witness ==
    /\ \E w \in written : ~w.template.root /\ Len(w.template.rel) > 1
                          /\ w.target \in DOMAIN files
    /\ \E w \in written : ~w.template.root /\ Len(w.template.rel) = 1

PreCommitName(name) == Contains(PRE_COMMIT, lower(name))

\* C5: with configure_pre_commit false no template whose file name contains
\* "pre-commit" (case-insensitively) is written and every other eligible
\* template is; with configure_pre_commit true no eligible template is skipped.
C5_PreCommitSkippedIffDisabled ==
    /\ ~config.configure_pre_commit =>
          \A w \in written : ~PreCommitName(Last(w.template.rel))
    /\ config.configure_pre_commit => skipped = {}
    /\ StepDone("generate_files") =>
          {w.template : w \in written} =
             {t \in EligibleTemplates :
                 config.configure_pre_commit \/ ~PreCommitName(Last(t.rel))}
    /\ pc \notin {"idle", "cleanup"} => \A w \in written : w.target \in DOMAIN files

\* C5 witness: with the flag off, a template named Pre-Commit... was skipped
\* and another template was written
C5_Witness ==
    /\ StepDone("generate_files")
    /\ ~config.configure_pre_commit
    /\ \E t \in skipped : ~Contains(PRE_COMMIT, Last(t.rel))
    /\ written # {}

\* C6: no step of generate_project changes a field of the ProjectConfig.
C6_ConfigUnchanged == [][config' = config]_vars

\* C6 witness: a call for "." has finished; the generator's name is the
\* directory's name and the configuration still says "."
C6_Witness ==
    /\ pc = "idle"
    /\ outcome.result = "ok"
    /\ start.project_name = DOT
    /\ gen.project_name = N_cwd
    /\ config.project_name = DOT

ClaimedOrder == <<"create_dirs", "generate_files", "tailwind", "uv", "success", "next_steps">>
Claimed(step) == \E i \in 1..Len(ClaimedOrder) : ClaimedOrder[i] = step
ClaimedDone == SelectSeq(steps, Claimed)
AllTemplatesHandled ==
    /\ remaining = {}
    /\ StepDone("generate_files")
    /\ {w.template : w \in written} \cup skipped = EligibleTemplates

\* C7: the steps of a call return in the order create directories, generate
\* files, Tailwind setup, uv installation, success message, next steps; a step
\* runs only when all the steps before it have returned; uv installation never
\* runs before every template has been handled.
C7_LinearPipeline ==
    /\ ClaimedDone = SubSeq(ClaimedOrder, 1, Len(ClaimedDone))
    /\ \A k \in 1..Len(ClaimedOrder) :
          pc = ClaimedOrder[k] => ClaimedDone = SubSeq(ClaimedOrder, 1, k - 1)
    /\ (pc = "uv" \/ uv # "not_run") => AllTemplatesHandled

\* C7 witness: a call went through the whole pipeline and uv sync ran on the
\* generated pyproject.toml
C7_Witness ==
    /\ pc = "idle"
    /\ outcome.result = "ok"
    /\ uv = "ok"
    /\ ClaimedDone = ClaimedOrder
    /\ \E w \in written : Last(w.target) = PYPROJECT_TOML

\* C8: when the project name is ".", every template is rendered with
\* project_name equal to the working directory's name, never with ".".
C8_RenderedWithDirectoryName ==
    \A w \in written :
        start.project_name = DOT => w.content.ctx.project_name = N_cwd

-----------------------------------------------------------------------------
(* collect_project_config (prompts.py) *)

GenOff ==
    /\ tmplRoot = {}
    /\ tmplVariant = {}
    /\ dirs = {}
    /\ files = NoFiles
    /\ config = [project_name |-> DOT, styling |-> <<>>, include_pages |-> FALSE,
                 configure_pre_commit |-> TRUE]
    /\ gen = NewGenerator(DOT)
    /\ pc = "off"
    /\ remaining = {}
    /\ steps = <<>>
    /\ written = {}
    /\ skipped = {}
    /\ uv = "not_run"
    /\ tailwind = "not_run"
    /\ lookup = NoLookup
    /\ outcome = NoOutcome
    /\ start = [dirs |-> {}, files |-> NoFiles, project_name |-> DOT, project_path |-> <<>>]

EnteredNames == {N_cwd, N_MyApp, N_my_app, N_new, DOT}
ListingEntries == {VENV, GIT, MAIN_PY, N_new}
StylingAnswers == {<<"none">>, <<"tailwind">>, <<"none", "tailwind">>}

\* lines 43-130: the answers of the form, and what os.listdir(".") returns
InitCollect ==
    /\ GenOff
    /\ val = ValOff
    /\ \E name \in EnteredNames, listing \in SUBSET ListingEntries, sty \in StylingAnswers :
          prompt = [stage |-> "answered", cwd_name |-> N_cwd, project_name |-> name,
                    styling |-> sty, listing |-> listing, offered |-> FALSE,
                    result |-> [kind |-> "none"]]

\* lines 137-138
normalize_name(name) == replace(replace(lower(name), "-", "_"), " ", "_")

\* lines 142-146: the test that guards the offer
EssentiallyEmpty(listing) ==
    LET dir_contents == listing \ {VENV, GIT}
    IN  dir_contents = {} \/ (Cardinality(dir_contents) = 1 /\ GIT \in listing)

\* ProjectConfig(**config), lines 157 and 169
ProjectConfig(name, styling) ==
    [kind |-> "config", project_name |-> name,
     styling |-> validate_none([kind |-> "list", items |-> styling])]

\* lines 132-169; answer: what the user replies if the offer is made
collect_project_config ==
    /\ prompt.stage = "answered"
    /\ LET name == prompt.project_name
           offer == /\ normalize_name(prompt.cwd_name) = normalize_name(name)
                    /\ EssentiallyEmpty(prompt.listing)
       IN  \E answer \in BOOLEAN :
              prompt' = [prompt EXCEPT
                 !.stage = "done",
                 !.offered = offer,
                 !.result =
                    IF offer /\ answer THEN ProjectConfig(DOT, prompt.styling)
                    ELSE IF (name = DOT \/ name \in prompt.listing) /\ name # DOT
                         THEN [kind |-> "FileExistsError"]
                         ELSE ProjectConfig(name, prompt.styling)]
    /\ UNCHANGED <<genVars, val>>

\* cli.py lines 103-110: the command ends after the configuration is shown or
\* the error is reported
create_dash_app ==
    /\ prompt.stage = "done"
    /\ prompt' = [prompt EXCEPT !.stage = IF prompt.result.kind = "config"
                                          THEN "configured" ELSE "aborted"]
    /\ UNCHANGED <<genVars, val>>

NextCollect == collect_project_config \/ create_dash_app

SpecCollect == InitCollect /\ [][NextCollect]_vars

\* C9: the offer to initialize the current directory is made only when the
\* directory's name matches the entered name after normalization and the
\* directory holds nothing other than .venv and .git.
C9_OfferOnlyForEmptyMatchingDirectory ==
    (prompt.stage # "answered" /\ prompt.offered) =>
        /\ normalize_name(prompt.cwd_name) = normalize_name(prompt.project_name)
        /\ prompt.listing \subseteq {VENV, GIT}

-----------------------------------------------------------------------------
(* ProjectConfig construction (models/project_config.py) *)

Choices == {"none", "tailwind", "bootstrap"}
Lists == UNION {[1..n -> Choices] : n \in 0..MaxLen}
RawValues ==
    {[kind |-> "none"]}
        \cup {[kind |-> "str", s |-> x] : x \in {"", "none", "tailwind"}}
        \cup {[kind |-> "list", items |-> l] : l \in Lists}

InitValidate ==
    /\ GenOff
    /\ prompt = PromptOff
    /\ \E raw \in RawValues, field \in {"styling", "animations"} :
          val = [stage |-> "raw", field |-> field, raw |-> raw,
                 stored |-> <<>>, again |-> <<>>]

\* line 31: the validator runs on the raw value of styling or animations
ValidateField ==
    /\ val.stage = "raw"
    /\ val' = [val EXCEPT !.stage = "stored", !.stored = validate_none(val.raw)]
    /\ UNCHANGED <<genVars, prompt>>

\* a ProjectConfig is built again from the stored list
ValidateStored ==
    /\ val.stage = "stored"
    /\ val' = [val EXCEPT !.stage = "again",
                          !.again = validate_none([kind |-> "list", items |-> val.stored])]
    /\ UNCHANGED <<genVars, prompt>>

NextValidate == ValidateField \/ ValidateStored

SpecValidate == InitValidate /\ [][NextValidate]_vars

NotNone(x) == x # "none"

\* C10: a falsy input yields []; a non-list input counts as a one-element list;
\* the result is the input list without its "none" entries, the others in
\* their order; so the stored list never contains "none" and validating it
\* again changes nothing.
C10_ValidateNone ==
    /\ val.stage \in {"stored", "again"} =>
          /\ ~Truthy(val.raw) => val.stored = <<>>
          /\ (Truthy(val.raw) /\ val.raw.kind = "list") =>
                val.stored = SelectSeq(val.raw.items, NotNone)
          /\ (Truthy(val.raw) /\ val.raw.kind = "str") =>
                val.stored = SelectSeq(<<val.raw.s>>, NotNone)
          /\ \A i \in 1..Len(val.stored) : val.stored[i] # "none"
    /\ val.stage = "again" => val.again = val.stored

\* C10 witness: a list with "none" among other entries was validated twice
C10_Witness ==
    /\ val.stage = "again"
    /\ val.raw.kind = "list"
    /\ Len(val.stored) >= 2
    /\ Len(val.raw.items) > Len(val.stored)
    /\ val.raw.items[1] = "none"

-----------------------------------------------------------------------------
(* Further properties of generate_project *)

\* C11: whenever _create_project_dirs has returned without raising,
\* project_path exists and project_path/src/pages exists, for a new project
\* name and for ".", whatever config.include_pages is.
C11_ProjectDirsCreated ==
    (StepDone("create_dirs") /\ pc # "idle") =>
        /\ gen.project_path = CallPath
        /\ exists(gen.project_path, dirs, files)
        /\ gen.project_path \o <<SRC, PAGES>> \in dirs

\* C11 witness: _create_project_dirs has just returned for a new project name
\* with include_pages false
C11_Witness ==
    /\ pc = "generate_files"
    /\ steps = <<"create_dirs">>
    /\ start.project_name # DOT
    /\ ~config.include_pages
    /\ ~TargetExisted

\* C12: rollback removes only what the failing call itself created: once a call
\* has failed, every directory and every file that existed when the call
\* started still exists (the directory that caused the FileExistsError and the
\* project of an earlier successful call included).
C12_RollbackKeepsEarlierDirectories ==
    Failed =>
        /\ start.dirs \subseteq dirs
        /\ DOMAIN start.files \subseteq DOMAIN files

C14_TemplateEligibility ==
    LET ShouldProcess(e) ==
            /\ e \in AllTemplates
            /\ Last(e.rel)[1] # "." \/ suffix(Last(e.rel)) = JINJA
        processed == {w.template : w \in written} \cup skipped
    IN  /\ \A t \in processed : ShouldProcess(t)
        /\ StepDone("generate_files") =>
               \A e \in Entries : ShouldProcess(e) => e \in processed

\* C14 witness: _generate_files has returned for a tree with a hidden file
\* below a directory of the variant and a hidden .jinja root template, which
\* was written
C14_Witness ==
    /\ StepDone("generate_files")
    /\ VariantTemplate(<<PAGES, T_gitignore>>) \in AllTemplates
    /\ [root |-> FALSE, rel |-> <<PAGES>>] \in Entries
    /\ \E w \in written : w.template = RootTemplate(T_precommit)

\* C15: _process_template_file looks a template up by its path relative to its
\* base directory first and by its bare file name only when that lookup
\* raised; when the fallback raises too, the exception leaves _generate_files:
\* the template is neither written nor skipped, no further template is
\* processed, and generate_project ends failed after its rollback.
C15_LookupFallback ==
    LET tried == lookup.tried
        Raised(i) == tried[i].found = NotFound
    IN  tried # <<>> =>
            /\ tried[1].name = lookup.template.rel
            /\ Len(tried) = (IF Raised(1) THEN 2 ELSE 1)
            /\ Len(tried) = 2 => tried[2].name = <<Last(lookup.template.rel)>>
            /\ Raised(Len(tried)) =>
                   /\ pc \in {"cleanup", "idle"}
                   /\ outcome.error = "TemplateError"
                   /\ ~StepDone("generate_files")
                   /\ lookup.template \notin {w.template : w \in written} \cup skipped
                   /\ pc = "idle" =>
                          /\ outcome.result = "failed"
                          /\ outcome.cleanup \in {"removed", "note"}
                          /\ start.project_name # DOT => ~exists(CallPath, dirs, files)

\* C15 witness: both lookups of a template raised while another template was
\* still to be processed, and the call has ended with the project directory
\* removed
C15_Witness ==
    /\ Failed
    /\ Len(lookup.tried) = 2
    /\ lookup.tried[2].found = NotFound
    /\ remaining # {}
    /\ outcome.cleanup = "removed"

====
